---- MODULE Spec2Model ----
(***************************************************************************)
(* FuseTransposeBrgemm (src/common/snippets/src/pass/                      *)
(* fuse_transpose_brgemm.cpp): a graph rewrite that folds a Transpose next *)
(* to a Brgemm into the layout of the Brgemm's port descriptor.            *)
(*                                                                         *)
(* Spec        : the pass on a family of small graphs.                     *)
(* SpecCompose : the lambda fuse_layouts applied to arbitrary vectors.     *)
(***************************************************************************)
EXTENDS Integers, Sequences, FiniteSets, TLC

VARIABLES
    scen,       \* which graph of the family this behaviour rewrites (fixed)
    rank,       \* rank of every tensor of the graph (fixed)
    order,      \* Transpose -> its input 1: [const, val] (never written)
    src,        \* input port <<node, index>> -> node producing its value
    out_shape,  \* node -> partial shape of its output 0
    in_desc,    \* Brgemm input port -> port descriptor [shape, layout]
    out_desc,   \* Brgemm -> port descriptor of its output 0
    aborted,    \* an OPENVINO_ASSERT threw out of the callback
    run,        \* number of the current run of the pass over the graph
    calls,      \* run -> callback invocations made in that run
    last,       \* the last invocation: its match root and resolved Brgemm
    pre,        \* src, out_shape, in_desc, out_desc before the last invocation
    init,       \* src, out_shape, in_desc, out_desc of the initial graph
    layout_1,   \* SpecCompose: first argument of fuse_layouts
    layout_2,   \* SpecCompose: second argument of fuse_layouts
    fused       \* SpecCompose: <<>> before the call, <<result>> after it

vars == <<scen, rank, order, src, out_shape, in_desc, out_desc, aborted,
          run, calls, last, pre, init, layout_1, layout_2, fused>>

graph_vars == <<scen, rank, order, src, out_shape, in_desc, out_desc, aborted,
                run, calls, last, pre, init>>

compose_vars == <<layout_1, layout_2, fused>>

(***************************************************************************)
(* Bounds of the model.                                                    *)
(***************************************************************************)
\* Tensors have rank 2 .. MaxRank.
MaxRank == 3
\* The pass is run NumRuns times over the same graph.
NumRuns == 2
\* Cap of the invocation counter of one run (never reached by the pass).
MaxCalls == 6
\* SpecCompose: vectors of length 0 .. MaxLen with entries 0 .. MaxLen.
MaxLen == 3

(***************************************************************************)
(* Vectors.  C++ indices are 0-based, TLA+ sequences 1-based.              *)
(***************************************************************************)
At(v, i) == v[i + 1]

Back(v) == v[Len(v)]

Identity(r) == [i \in 1..r |-> i - 1]

\* <<1, 0, 2, ..., r-1>>
SwapFirst(r) == [i \in 1..r |-> IF i = 1 THEN 1 ELSE IF i = 2 THEN 0 ELSE i - 1]

\* <<0, ..., r-3, r-1, r-2>>
SwapLast(r) == [i \in 1..r |-> IF i = r THEN r - 2 ELSE IF i = r - 1 THEN r - 1 ELSE i - 1]

\* <<1, 2, ..., r-1, 0>>
Rotate(r) == [i \in 1..r |-> IF i = r THEN 0 ELSE i]

IsPermutation(v, r) ==
    /\ Len(v) = r
    /\ \A k \in 0..(r - 1) : \E i \in 1..r : v[i] = k

(***************************************************************************)
(* Eligibility predicate.                                                  *)
(***************************************************************************)
is_supported_transpose_order(ord) ==
    LET size == Len(ord)
    IN  ord # <<>> /\ Back(ord) = size - 1

(***************************************************************************)
(* The nodes.  Every node has one output; a Transpose's input 1 (its       *)
(* order) is kept in `order`: const says whether that input is produced by *)
(* a Constant, val is the Constant's value.                                *)
(***************************************************************************)
Parameters == {"P0", "P1"}

Transposes == {"T0", "T1", "T2", "T3"}

Brgemms == {"B1", "B2"}

Results == {"R1", "R2"}

NoNode == "none"

\* The graphs of the family, each as the map input port -> source node.
\* 1: Transposes on both inputs and on the output of one Brgemm.
\* 2: the Brgemm output feeds two Transposes.
\* 3: the Brgemm output feeds a Transpose and a Result.
\* 4: one Transpose feeds input 0 of two Brgemms.
\* 5: one Transpose feeds both inputs of a Brgemm and a Result.
\* 6: a Transpose between two Brgemms, and one on input 1 of the second.
\* 7: two Transposes in a row on input 0 of a Brgemm.
Scenario(sc) ==
    CASE sc = 1 -> (<<"T0", 0>> :> "P0") @@ (<<"T1", 0>> :> "P1") @@
                   (<<"B1", 0>> :> "T0") @@ (<<"B1", 1>> :> "T1") @@
                   (<<"T2", 0>> :> "B1") @@ (<<"R1", 0>> :> "T2")
      [] sc = 2 -> (<<"B1", 0>> :> "P0") @@ (<<"B1", 1>> :> "P1") @@
                   (<<"T2", 0>> :> "B1") @@ (<<"T3", 0>> :> "B1") @@
                   (<<"R1", 0>> :> "T2") @@ (<<"R2", 0>> :> "T3")
      [] sc = 3 -> (<<"B1", 0>> :> "P0") @@ (<<"B1", 1>> :> "P1") @@
                   (<<"T2", 0>> :> "B1") @@
                   (<<"R1", 0>> :> "T2") @@ (<<"R2", 0>> :> "B1")
      [] sc = 4 -> (<<"T0", 0>> :> "P0") @@
                   (<<"B1", 0>> :> "T0") @@ (<<"B1", 1>> :> "P1") @@
                   (<<"B2", 0>> :> "T0") @@ (<<"B2", 1>> :> "P1") @@
                   (<<"R1", 0>> :> "B1") @@ (<<"R2", 0>> :> "B2")
      [] sc = 5 -> (<<"T0", 0>> :> "P0") @@
                   (<<"B1", 0>> :> "T0") @@ (<<"B1", 1>> :> "T0") @@
                   (<<"R1", 0>> :> "B1") @@ (<<"R2", 0>> :> "T0")
      [] sc = 6 -> (<<"B1", 0>> :> "P0") @@ (<<"B1", 1>> :> "P1") @@
                   (<<"T2", 0>> :> "B1") @@ (<<"T1", 0>> :> "P1") @@
                   (<<"B2", 0>> :> "T2") @@ (<<"B2", 1>> :> "T1") @@
                   (<<"R1", 0>> :> "B2")
      [] sc = 7 -> (<<"T0", 0>> :> "P0") @@ (<<"T1", 0>> :> "T0") @@
                   (<<"B1", 0>> :> "T1") @@ (<<"B1", 1>> :> "P1") @@
                   (<<"R1", 0>> :> "B1")

Scenarios == 1..7

Ports(s) == DOMAIN s

NodesOf(s) == {q[1] : q \in Ports(s)} \cup {s[q] : q \in Ports(s)}

\* Node::get_input_size
get_input_size(s, n) == Cardinality({q \in Ports(s) : q[1] = n})

\* Output::get_target_inputs
get_target_inputs(s, n) == {q \in Ports(s) : s[q] = n}

BrgemmPorts(s) == {q \in Ports(s) : q[1] \in Brgemms}

\* The nodes of the graph: those a Result reaches through its inputs.
RECURSIVE Reach(_, _)
Reach(s, seen) ==
    LET more == {s[q] : q \in {p \in Ports(s) : p[1] \in seen}} \ seen
    IN  IF more = {} THEN seen ELSE Reach(s, seen \cup more)

InGraph(s) == Reach(s, NodesOf(s) \cap Results)

(***************************************************************************)
(* Shapes.  A dynamic dimension of a PartialShape is DynDim; in the        *)
(* VectorDims of a port descriptor it is DYNAMIC_DIMENSION.                *)
(***************************************************************************)
DynDim == -1

DYNAMIC_DIMENSION == 2147483647

ParameterShape(n, r) == [i \in 1..r |-> IF n = "P0" THEN i + 1 ELSE i + 4]

\* utils::pshape_to_vdims
pshape_to_vdims(pshape) ==
    IF pshape = <<>> THEN <<1>>
    ELSE [i \in 1..Len(pshape) |->
             IF pshape[i] = DynDim THEN DYNAMIC_DIMENSION ELSE pshape[i]]

\* utils::get_planar_pshape: the shape reordered by the layout
get_planar_pshape(shape, layout) ==
    IF layout = <<>> THEN shape
    ELSE [i \in 1..Len(layout) |-> At(shape, layout[i])]

\* Transpose::validate_and_infer_types
TransposeShape(in_shape, ord) ==
    LET r == Len(in_shape)
    IN  IF ~ord.const THEN [i \in 1..r |-> DynDim]
        ELSE IF ord.val = <<>> THEN [i \in 1..r |-> in_shape[r + 1 - i]]
        ELSE [i \in 1..r |-> At(in_shape, ord.val[i])]

\* Brgemm::validate_and_infer_types: the matrix product of the planar
\* inputs, reordered by the layout of the output port.
BrgemmShape(in0_shape, in0_layout, in1_shape, in1_layout, out_layout) ==
    LET a == get_planar_pshape(in0_shape, in0_layout)
        b == get_planar_pshape(in1_shape, in1_layout)
        r == Len(a)
        planar == [i \in 1..r |-> IF i < r THEN a[i] ELSE b[r]]
    IN  get_planar_pshape(planar, out_layout)

\* Shape inference over the initial graph.
RECURSIVE InferShape(_, _, _, _, _, _)
InferShape(n, s, od, r, il, ol) ==
    IF n \in Parameters THEN ParameterShape(n, r)
    ELSE IF n \in Transposes
    THEN TransposeShape(InferShape(s[<<n, 0>>], s, od, r, il, ol), od[n])
    ELSE BrgemmShape(InferShape(s[<<n, 0>>], s, od, r, il, ol), il[<<n, 0>>],
                     InferShape(s[<<n, 1>>], s, od, r, il, ol), il[<<n, 1>>],
                     ol[n])

\* What a Transpose's input 1 can be in a graph of rank r.
OrderChoices(r) ==
    {[const |-> TRUE, val |-> v] :
        v \in {Identity(r), SwapFirst(r), SwapLast(r), <<>>}}
    \cup {[const |-> FALSE, val |-> <<>>]}

\* What a port descriptor's layout can be before the pass.
LayoutChoices(r) == {<<>>, Rotate(r)}

(***************************************************************************)
(* Eligibility of an output (lines 30-40).                                 *)
(***************************************************************************)
\* ov::op::v0::Constant::cast_vector<int32_t> / <size_t> of an order whose
\* entries are in 0 .. rank-1: the values are kept.
cast_vector(v) == [i \in 1..Len(v) |-> v[i]]

is_supported_transpose(n) ==
    IF n \notin Transposes THEN FALSE
    ELSE IF ~order[n].const THEN FALSE
    ELSE is_supported_transpose_order(cast_vector(order[n].val))

(***************************************************************************)
(* The pattern (lines 49-66), as predicates on a candidate root in the     *)
(* graph with edges s.                                                     *)
(***************************************************************************)
\* m_constant at input 1 of the Transpose n: that input is a Constant.
m_constant(n) == n \in Transposes /\ order[n].const

m_transpose(n) ==
    n \in Transposes /\ m_constant(n) /\ is_supported_transpose(n)

m_brgemm_in0(s, n) == n \in Brgemms /\ m_transpose(s[<<n, 0>>])

m_brgemm_in1(s, n) == n \in Brgemms /\ m_transpose(s[<<n, 1>>])

m_brgemm_out(s, n) == n \in Brgemms

m_transpose2(s, n) ==
    /\ n \in Transposes
    /\ m_brgemm_out(s, s[<<n, 0>>])
    /\ m_constant(n)
    /\ is_supported_transpose(n)

\* A plausible slip: pattern 1 left out of the Or.
m_brgemm_or_transpose_no_in1(s, n) ==
    m_brgemm_in0(s, n) \/ m_transpose2(s, n)

m_brgemm_or_transpose(s, n) ==
    m_brgemm_in0(s, n) \/ m_brgemm_in1(s, n) \/ m_transpose2(s, n)

(***************************************************************************)
(* fuse_layouts (lines 72-86).  The result is [ok, val]: ok = FALSE is an  *)
(* OPENVINO_ASSERT that threw, and then there is no value.                 *)
(***************************************************************************)
Thrown == [ok |-> FALSE, val |-> <<>>]

Returned(v) == [ok |-> TRUE, val |-> v]

\* A plausible slip: the index of the gather is not advanced.
fuse_layouts_first_index(l1, l2) ==
    IF l1 = <<>> THEN Returned(l2)
    ELSE IF l2 = <<>> THEN Returned(l1)
    ELSE IF Len(l1) # Len(l2) THEN Thrown
    ELSE IF \E i \in 0..(Len(l1) - 1) : At(l2, i) >= Len(l1) THEN Thrown
    ELSE Returned([i \in 1..Len(l1) |-> At(l1, At(l2, 0))])

\* A plausible slip: the bound of layout_2[i] is not asserted, and an entry
\* that is out of range leaves the rest of the vector value-initialised.
fuse_layouts_unchecked(l1, l2) ==
    IF l1 = <<>> THEN Returned(l2)
    ELSE IF l2 = <<>> THEN Returned(l1)
    ELSE IF Len(l1) # Len(l2) THEN Thrown
    ELSE Returned([i \in 1..Len(l1) |->
                      IF At(l2, i - 1) < Len(l1) THEN At(l1, At(l2, i - 1)) ELSE 0])

fuse_layouts(l1, l2) ==
    IF l1 = <<>> THEN Returned(l2)
    ELSE IF l2 = <<>> THEN Returned(l1)
    ELSE IF Len(l1) # Len(l2) THEN Thrown
    ELSE IF \E i \in 0..(Len(l1) - 1) : At(l2, i) >= Len(l1) THEN Thrown
    ELSE Returned([i \in 1..Len(l1) |-> At(l1, At(l2, i - 1))])

(***************************************************************************)
(* The callback (lines 68-125) on a state st = [src, out_shape, in_desc,   *)
(* out_desc, aborted].  Once an assertion has thrown nothing more is done. *)
(***************************************************************************)
State ==
    [src |-> src, out_shape |-> out_shape, in_desc |-> in_desc,
     out_desc |-> out_desc, aborted |-> aborted]

\* Lines 70 and 90: the Brgemm the match is about.
ResolveBrgemm(st, root) ==
    IF root \in Brgemms THEN root ELSE st.src[<<root, 0>>]

\* A plausible slip: the operands of fuse_layouts in the input order.
OutputLayout_swapped(out_layout, transpose_order) ==
    fuse_layouts(transpose_order, out_layout)

\* Line 99: the layout of the output port.
OutputLayout(out_layout, transpose_order) ==
    fuse_layouts(out_layout, transpose_order)

\* A plausible slip: the consumers of the Transpose are left on it.
ReplaceSourceOutputs_none(s, t, b) == s

\* Lines 100-102: every input fed by t is fed by b.
ReplaceSourceOutputs(s, t, b) ==
    [q \in DOMAIN s |-> IF q \in get_target_inputs(s, t) THEN b ELSE s[q]]

\* A plausible slip: the shape of the Transpose's input is recorded.
OutputPortShape_input(st, t) == pshape_to_vdims(st.out_shape[st.src[<<t, 0>>]])

\* Line 96: the shape recorded on the output port.
OutputPortShape(st, t) == pshape_to_vdims(st.out_shape[t])

\* Lines 89-103: the match root t is a Transpose on a Brgemm's output.
OutputBranch(st, t) ==
    LET brgemm == st.src[<<t, 0>>]
        st1 == [st EXCEPT !.out_desc[brgemm].shape = OutputPortShape(st, t)]
        transpose_order == cast_vector(order[t].val)
        f == OutputLayout(st1.out_desc[brgemm].layout, transpose_order)
    IN  IF ~f.ok THEN [st1 EXCEPT !.aborted = TRUE]
        ELSE [st1 EXCEPT !.out_desc[brgemm].layout = f.val,
                         !.src = ReplaceSourceOutputs(st1.src, t, brgemm)]

\* A plausible slip: the operands of fuse_layouts in the output order.
InputLayout_swapped(transpose_order, in_layout) ==
    fuse_layouts(in_layout, transpose_order)

\* Line 117: the layout of an input port.
InputLayout(transpose_order, in_layout) ==
    fuse_layouts(transpose_order, in_layout)

\* A plausible slip: the input keeps the Transpose as its source.
SetArgument_kept(s, brgemm, i, transpose) == s

\* Line 112: input i of the Brgemm takes the Transpose's input 0.
SetArgument(s, brgemm, i, transpose) ==
    [s EXCEPT ![<<brgemm, i>>] = s[<<transpose, 0>>]]

\* Lines 106-118: the body of the loop for input i.
InputStep(st, brgemm, i) ==
    LET in == <<brgemm, i>>
        in_value == st.src[in]
    IN  IF st.aborted \/ ~is_supported_transpose(in_value) THEN st
        ELSE LET transpose_order == cast_vector(order[in_value].val)
                 st1 == [st EXCEPT
                           !.src = SetArgument(st.src, brgemm, i, in_value),
                           !.in_desc[in].shape =
                               pshape_to_vdims(st.out_shape[st.src[<<in_value, 0>>]])]
                 f == InputLayout(transpose_order, st.in_desc[in].layout)
             IN  IF ~f.ok THEN [st1 EXCEPT !.aborted = TRUE]
                 ELSE [st1 EXCEPT !.in_desc[in].layout = f.val]

\* Lines 105-119: the loop over the inputs, from input i on.
RECURSIVE InputLoop(_, _, _)
InputLoop(st, brgemm, i) ==
    IF i >= get_input_size(st.src, brgemm) THEN st
    ELSE InputLoop(InputStep(st, brgemm, i), brgemm, i + 1)

\* Line 123: the Brgemm infers its output shape again.
validate_and_infer_types(st, brgemm) ==
    IF st.aborted THEN st
    ELSE [st EXCEPT !.out_shape[brgemm] =
            BrgemmShape(st.out_shape[st.src[<<brgemm, 0>>]],
                        st.in_desc[<<brgemm, 0>>].layout,
                        st.out_shape[st.src[<<brgemm, 1>>]],
                        st.in_desc[<<brgemm, 1>>].layout,
                        st.out_desc[brgemm].layout)]

\* Lines 68-125.
callback(st, root) ==
    LET brgemm == ResolveBrgemm(st, root)
        st1 == IF root \notin Brgemms THEN OutputBranch(st, root) ELSE st
        st2 == InputLoop(st1, brgemm, 0)
    IN  validate_and_infer_types(st2, brgemm)

(***************************************************************************)
(* The pass.                                                               *)
(***************************************************************************)
TransposesOf(s) == NodesOf(s) \cap Transposes

BrgemmsOf(s) == NodesOf(s) \cap Brgemms

\* The nodes of the graph on which the matcher matches.
Matches(s) == {n \in InGraph(s) : m_brgemm_or_transpose(s, n)}

Snapshot ==
    [src |-> src, out_shape |-> out_shape, in_desc |-> in_desc,
     out_desc |-> out_desc]

NoCall == [root |-> NoNode, brgemm |-> NoNode]

Init ==
    /\ scen \in Scenarios
    /\ rank \in 2..MaxRank
    /\ src = Scenario(scen)
    /\ order \in [TransposesOf(src) -> OrderChoices(rank)]
    /\ \E il \in [BrgemmPorts(src) -> LayoutChoices(rank)] :
       \E ol \in [BrgemmsOf(src) -> LayoutChoices(rank)] :
         /\ out_shape = [n \in NodesOf(src) \ Results |->
                            InferShape(n, src, order, rank, il, ol)]
         /\ in_desc = [q \in BrgemmPorts(src) |->
                          [shape |-> pshape_to_vdims(
                                        InferShape(src[q], src, order, rank, il, ol)),
                           layout |-> il[q]]]
         /\ out_desc = [b \in BrgemmsOf(src) |->
                           [shape |-> pshape_to_vdims(
                                         InferShape(b, src, order, rank, il, ol)),
                            layout |-> ol[b]]]
    /\ aborted = FALSE
    /\ run = 1
    /\ calls = [k \in 1..NumRuns |-> 0]
    /\ last = NoCall
    /\ pre = Snapshot
    /\ init = Snapshot
    /\ layout_1 = <<>>
    /\ layout_2 = <<>>
    /\ fused = <<>>

\* The matcher reports a match rooted at `root` and the callback runs.
Callback(root) ==
    /\ ~aborted
    /\ calls[run] < MaxCalls
    /\ root \in Matches(src)
    /\ LET st == callback(State, root)
       IN  /\ src' = st.src
           /\ out_shape' = st.out_shape
           /\ in_desc' = st.in_desc
           /\ out_desc' = st.out_desc
           /\ aborted' = st.aborted
    /\ last' = [root |-> root, brgemm |-> ResolveBrgemm(State, root)]
    /\ pre' = Snapshot
    /\ calls' = [calls EXCEPT ![run] = @ + 1]
    /\ UNCHANGED <<scen, rank, order, run, init, compose_vars>>

\* No node of the graph matches: the run is over, and the pass is run again.
FinishRun ==
    /\ ~aborted
    /\ Matches(src) = {}
    /\ run < NumRuns
    /\ run' = run + 1
    /\ UNCHANGED <<scen, rank, order, src, out_shape, in_desc, out_desc,
                   aborted, calls, last, pre, init, compose_vars>>

Next == (\E root \in NodesOf(src) : Callback(root)) \/ FinishRun

Spec == Init /\ [][Next]_vars

(***************************************************************************)
(* fuse_layouts on arbitrary vectors.                                      *)
(***************************************************************************)
RECURSIVE Vectors(_)
Vectors(n) ==
    IF n = 0 THEN {<<>>}
    ELSE LET shorter == Vectors(n - 1)
         IN  shorter \cup {Append(v, x) : v \in {w \in shorter : Len(w) = n - 1},
                                          x \in 0..MaxLen}

InitCompose ==
    /\ layout_1 \in Vectors(MaxLen)
    /\ layout_2 \in Vectors(MaxLen)
    /\ fused = <<>>
    /\ scen = 0
    /\ rank = 0
    /\ order = <<>>
    /\ src = <<>>
    /\ out_shape = <<>>
    /\ in_desc = <<>>
    /\ out_desc = <<>>
    /\ aborted = FALSE
    /\ run = 1
    /\ calls = <<>>
    /\ last = NoCall
    /\ pre = <<>>
    /\ init = <<>>

\* The lambda is called; the call returns a vector or throws.
CallFuseLayouts ==
    /\ fused = <<>>
    /\ fused' = <<fuse_layouts(layout_1, layout_2)>>
    /\ UNCHANGED <<layout_1, layout_2, graph_vars>>

NextCompose == CallFuseLayouts

SpecCompose == InitCompose /\ [][NextCompose]_vars

(***************************************************************************)
(* What the claims speak of, stated from the specification and not from    *)
(* the code: the composed layout of section 4.3, eligibility of section    *)
(* 4.1 against the tensor's rank, and the invocation the history records.  *)
(***************************************************************************)
\* Section 4.3 on full permutations of one rank, or empty layouts.
compose(outer, inner) ==
    IF outer = <<>> THEN inner
    ELSE IF inner = <<>> THEN outer
    ELSE [i \in 1..Len(inner) |-> outer[inner[i] + 1]]

\* Section 4.1: a constant, non-empty permutation whose last entry is rank-1.
Eligible(n) ==
    /\ n \in Transposes
    /\ order[n].const
    /\ order[n].val # <<>>
    /\ order[n].val[Len(order[n].val)] = rank - 1

\* A callback invocation has been made and has returned.
Invoked == last.root # NoNode /\ ~aborted

\* The inputs of the resolved Brgemm that an eligible Transpose fed before
\* the last invocation.
FusedInputs ==
    {q \in {<<last.brgemm, 0>>, <<last.brgemm, 1>>} : Eligible(pre.src[q])}

\* The first run of the pass over the graph has ended: the matcher found
\* no further match.
PassDone == run > 1

(***************************************************************************)
(* Claims.                                                                 *)
(***************************************************************************)
\* C3: fuse_layouts(outer, inner) returns inner when outer is empty, outer
\* when inner is empty and outer is not, and otherwise throws exactly when
\* the lengths differ or some inner[i] >= len(outer), and returns the vector
\* r of that length with r[i] = outer[inner[i]] for every i when it does not.
C3_LayoutComposer ==
    fused # <<>> =>
        LET f == fused[1]
            outer == layout_1
            inner == layout_2
            bad == \/ Len(outer) # Len(inner)
                   \/ \E i \in 1..Len(inner) : inner[i] >= Len(outer)
        IN  /\ outer = <<>> => f.ok /\ f.val = inner
            /\ outer # <<>> /\ inner = <<>> => f.ok /\ f.val = outer
            /\ outer # <<>> /\ inner # <<>> =>
                 /\ f.ok = ~bad
                 /\ f.ok => /\ Len(f.val) = Len(outer)
                            /\ \A i \in 1..Len(inner) :
                                 f.val[i] = outer[inner[i] + 1]

\* C3 witness: both vectors are non-empty and of full length, and the call
\* returned a gathered vector that is neither of them.
C3_Witness ==
    /\ fused # <<>>
    /\ Len(layout_1) = MaxLen
    /\ Len(layout_2) = MaxLen
    /\ fused[1].ok
    /\ fused[1].val # layout_1
    /\ fused[1].val # layout_2

\* C1: after an invocation, every input of the resolved Brgemm that an
\* eligible Transpose T fed consumes T's input 0, records the shape of T's
\* input and the layout compose(outer = T's order, inner = the layout the
\* port recorded before); every other input of that Brgemm keeps its
\* source, shape and layout.
C1_InputFusion ==
    Invoked =>
        \A i \in 0..1 :
            LET q == <<last.brgemm, i>>
                t == pre.src[q]
            IN  IF Eligible(t)
                THEN /\ src[q] = pre.src[<<t, 0>>]
                     /\ in_desc[q].shape =
                            pshape_to_vdims(pre.out_shape[pre.src[<<t, 0>>]])
                     /\ in_desc[q].layout =
                            compose(order[t].val, pre.in_desc[q].layout)
                ELSE /\ src[q] = pre.src[q]
                     /\ in_desc[q] = pre.in_desc[q]

\* C1 witness: the match root was the Transpose on the output, both inputs
\* of the Brgemm were fed by eligible Transposes, input 0 had a layout
\* recorded, input 1 had none and now records <<1, 0, 2>>.
C1_Witness ==
    /\ Invoked
    /\ last.root \in Transposes
    /\ Eligible(pre.src[<<last.brgemm, 0>>])
    /\ Eligible(pre.src[<<last.brgemm, 1>>])
    /\ pre.in_desc[<<last.brgemm, 0>>].layout # <<>>
    /\ in_desc[<<last.brgemm, 0>>].layout # order[pre.src[<<last.brgemm, 0>>]].val
    /\ pre.in_desc[<<last.brgemm, 1>>].layout = <<>>
    /\ in_desc[<<last.brgemm, 1>>].layout = <<1, 0, 2>>

\* C2: after an invocation whose match root is an eligible Transpose T with
\* constant order p on the output of Brgemm B, B's output port records T's
\* output shape and the layout compose(outer = the layout recorded before,
\* inner = p), which is p itself when no layout was recorded, and every
\* input T fed before the invocation consumes B.
C2_OutputFusion ==
    (/\ Invoked
     /\ last.root \in Transposes
     /\ Eligible(last.root)
     /\ pre.src[<<last.root, 0>>] \in Brgemms) =>
        LET t == last.root
            b == pre.src[<<t, 0>>]
            p == order[t].val
        IN  /\ out_desc[b].shape = pshape_to_vdims(pre.out_shape[t])
            /\ out_desc[b].layout = compose(pre.out_desc[b].layout, p)
            /\ pre.out_desc[b].layout = <<>> => out_desc[b].layout = p
            /\ \A q \in get_target_inputs(pre.src, t) : src[q] = b

\* C2 witness: an output fusion onto a port that recorded a layout, and the
\* composed layout is neither that layout nor the Transpose's order.
C2_Witness ==
    /\ Invoked
    /\ last.root \in Transposes
    /\ Eligible(last.root)
    /\ pre.out_desc[last.brgemm].layout # <<>>
    /\ out_desc[last.brgemm].layout # pre.out_desc[last.brgemm].layout
    /\ out_desc[last.brgemm].layout # order[last.root].val
    /\ get_target_inputs(pre.src, last.root) # {}

\* The instance of C2 without a recorded layout: the output port takes the
\* order <<1, 0, 2>> of the Transpose as its layout.
C2_NoPriorLayout ==
    /\ Invoked
    /\ last.root \in Transposes
    /\ pre.out_desc[last.brgemm].layout = <<>>
    /\ order[last.root].val = <<1, 0, 2>>
    /\ out_desc[last.brgemm].layout = <<1, 0, 2>>

\* Two port descriptors say the same: equal shapes, and equal layouts when
\* no recorded layout is read as the default order 0, 1, ..., r-1.
PlainLayout(d) == IF d.layout = <<>> THEN Identity(Len(d.shape)) ELSE d.layout

SameDescriptor(d, e) == d.shape = e.shape /\ PlainLayout(d) = PlainLayout(e)

\* A Brgemm is next to Transpose t in the graph with edges s.
Adjacent(s, t) ==
    \/ s[<<t, 0>>] \in Brgemms
    \/ \E q \in get_target_inputs(s, t) : q[1] \in Brgemms

\* An invocation takes a consumer from a Transpose only if it is eligible.
OnlyEligibleBypassed ==
    Invoked =>
        \A t \in TransposesOf(src) :
            (\E q \in get_target_inputs(pre.src, t) : src[q] # t) => Eligible(t)

\* An invocation leaves the edges of an ineligible Transpose next to a
\* Brgemm, and the descriptors of the Brgemm inputs it feeds, as they were.
IneligibleEdgesKept ==
    Invoked =>
        \A t \in TransposesOf(src) :
            (~Eligible(t) /\ Adjacent(pre.src, t)) =>
                /\ last.root # t
                /\ src[<<t, 0>>] = pre.src[<<t, 0>>]
                /\ get_target_inputs(src, t) = get_target_inputs(pre.src, t)
                /\ \A q \in get_target_inputs(pre.src, t) \cap BrgemmPorts(src) :
                       SameDescriptor(in_desc[q], pre.in_desc[q])

\* An invocation leaves the descriptor of a Brgemm output that feeds an
\* ineligible Transpose as it was.
IneligibleOutputKept ==
    Invoked =>
        \A t \in TransposesOf(src) :
            (~Eligible(t) /\ pre.src[<<t, 0>>] \in Brgemms) =>
                SameDescriptor(out_desc[pre.src[<<t, 0>>]],
                               pre.out_desc[pre.src[<<t, 0>>]])

\* C4: the pass bypasses or removes a Transpose only if its order is a
\* constant, non-empty and ends in rank-1; an ineligible Transpose next to a
\* Brgemm roots no match, and every edge, shape and layout around it (its
\* own edges, the descriptors of the Brgemm inputs it feeds and of the
\* Brgemm output it consumes) says the same as before the invocation.
C4_OnlyEligibleFused ==
    OnlyEligibleBypassed /\ IneligibleEdgesKept /\ IneligibleOutputKept

\* The descriptors the last invocation wrote.
TouchedDescriptors ==
    {in_desc[q] : q \in FusedInputs}
    \cup (IF last.root \in Transposes THEN {out_desc[last.brgemm]} ELSE {})

\* C5: from a graph whose layouts are empty or permutations and whose
\* Transposes carry permutations, after every invocation that returned the
\* layout of every port descriptor it wrote is a permutation of 0 .. r-1,
\* r the rank of the shape that descriptor now records.
C5_LayoutValid ==
    Invoked =>
        \A d \in TouchedDescriptors : IsPermutation(d.layout, Len(d.shape))

\* C5 witness: an invocation wrote an input and the output descriptor, both
\* of which recorded a layout before.
C5_Witness ==
    /\ Invoked
    /\ last.root \in Transposes
    /\ pre.out_desc[last.brgemm].layout # <<>>
    /\ \E q \in FusedInputs : pre.in_desc[q].layout # <<>>

\* C6: once a run of the pass has ended, no Brgemm of the graph has an
\* input fed by an eligible Transpose, no eligible Transpose on a Brgemm
\* output is consumed by a node of the graph, and the runs that follow make
\* no invocation.
C6_Idempotent ==
    PassDone =>
        /\ \A q \in BrgemmPorts(src) :
               q[1] \in InGraph(src) => ~Eligible(src[q])
        /\ \A t \in TransposesOf(src) :
               (Eligible(t) /\ src[<<t, 0>>] \in Brgemms) =>
                   \A q \in get_target_inputs(src, t) : q[1] \notin InGraph(src)
        /\ calls[run] = 0

\* C6 witness: the second run, after a first run that fused Transposes on
\* inputs and on the output.
C6_Witness ==
    /\ run = 2
    /\ calls[1] >= 2
    /\ scen = 1
    /\ src[<<"R1", 0>>] = "B1"
    /\ src[<<"B1", 0>>] = "P0"

\* The Transpose nodes of the initial graph.
NumTransposes == Cardinality(TransposesOf(init.src))

\* No node of the graph matches.
NoMatch == Matches(src) = {}

\* C7 as stated, its bound: the callback is invoked at most as many times
\* as the initial graph has Transpose nodes.
C7_AsStated == calls[1] <= NumTransposes

\* The Transposes chained in front of the value node n produces.
RECURSIVE ChainDepth(_, _)
ChainDepth(s, n) ==
    IF n \in Transposes THEN 1 + ChainDepth(s, s[<<n, 0>>]) ELSE 0

RECURSIVE SumDepth(_, _)
SumDepth(s, ports) ==
    IF ports = {} THEN 0
    ELSE LET q == CHOOSE p \in ports : TRUE
         IN  ChainDepth(s, s[q]) + SumDepth(s, ports \ {q})

\* The inputs of nodes of the graph, each counted once per Transpose
\* chained in front of it.
FedByTranspose(s) == SumDepth(s, {q \in Ports(s) : q[1] \in InGraph(s)})

\* C7 as amended: every invocation takes at least one Transpose from in
\* front of an input of the graph, so the callback is invoked at most as
\* many times as the initial graph has inputs fed by a Transpose (a
\* Transpose that feeds k inputs counts k times); the cap of the model is
\* never reached, so the pass stops only for want of a match; a node that
\* has left the graph does not come back.
C7_Terminates ==
    /\ [](calls[1] + FedByTranspose(src) <= FedByTranspose(init.src))
    /\ [](calls[run] < MaxCalls)
    /\ [][InGraph(src') \subseteq InGraph(src)]_vars

\* C7 witness: one Transpose, two invocations, no match left.
C7_Witness ==
    /\ NumTransposes = 1
    /\ calls[1] = 2
    /\ NoMatch
    /\ "T0" \notin InGraph(src)

\* The Transposes the last invocation folded into a layout.
Folded ==
    {pre.src[q] : q \in FusedInputs}
    \cup (IF last.root \in Transposes THEN {last.root} ELSE {})

\* C8 as stated: after an invocation every Transpose it folded feeds no
\* input of any node and is out of the graph, and the Brgemm is in it.
C8_AsStated ==
    Invoked =>
        /\ \A t \in Folded :
               get_target_inputs(src, t) = {} /\ t \notin InGraph(src)
        /\ last.brgemm \in InGraph(src)

\* C8 as amended: after an invocation the Transpose folded on the output
\* feeds no input and is out of the graph; a Transpose folded on input i no
\* longer feeds input i, and is out of the graph unless a node of the graph
\* other than through that input still consumes it; the Brgemm is in the
\* graph.
C8_Lifecycle ==
    Invoked =>
        /\ last.root \in Transposes =>
               /\ get_target_inputs(src, last.root) = {}
               /\ last.root \notin InGraph(src)
        /\ \A q \in FusedInputs :
               /\ src[q] # pre.src[q]
               /\ get_target_inputs(src, pre.src[q]) =
                      get_target_inputs(pre.src, pre.src[q]) \ FusedInputs
               /\ pre.src[q] \in InGraph(src) <=>
                      \E c \in get_target_inputs(pre.src, pre.src[q]) \ FusedInputs :
                          c[1] \in InGraph(src)
        /\ last.brgemm \in InGraph(src)
        /\ last.brgemm \in Brgemms

\* C8 witness: one invocation folded a Transpose on an input that another
\* node still consumes, so it stays in the graph.
C8_Witness ==
    /\ Invoked
    /\ \E q \in FusedInputs :
           /\ pre.src[q] \in InGraph(src)
           /\ get_target_inputs(src, pre.src[q]) # {}
    /\ last.brgemm \in InGraph(src)

\* C9: for every input, other than the data input of the Transpose that was
\* the match root, that consumes a Brgemm's output before and after an
\* invocation, that output's port descriptor says the same before and after
\* (same shape, same layout).
C9_OtherConsumersKept ==
    Invoked =>
        \A q \in Ports(src) :
            (/\ q # <<last.root, 0>>
             /\ pre.src[q] \in Brgemms
             /\ src[q] = pre.src[q])
            => SameDescriptor(out_desc[src[q]], pre.out_desc[src[q]])

\* At the end of the first run on the graph with eligible Transposes on
\* both inputs and on the output of B1.
AllThreeEligible ==
    /\ scen = 1
    /\ Eligible("T0") /\ Eligible("T1") /\ Eligible("T2")

\* C10: with eligible Transposes on both inputs and as the only consumer of
\* the output of a Brgemm, the edges and the three port descriptors at the
\* end of the pass are one function of the initial graph, whichever match
\* the matcher reported first.
C10_OrderIndependent ==
    (PassDone /\ AllThreeEligible) =>
        /\ src = [init.src EXCEPT ![<<"B1", 0>>] = "P0",
                                  ![<<"B1", 1>>] = "P1",
                                  ![<<"R1", 0>>] = "B1"]
        /\ in_desc[<<"B1", 0>>] =
               [shape |-> pshape_to_vdims(init.out_shape["P0"]),
                layout |-> compose(order["T0"].val, init.in_desc[<<"B1", 0>>].layout)]
        /\ in_desc[<<"B1", 1>>] =
               [shape |-> pshape_to_vdims(init.out_shape["P1"]),
                layout |-> compose(order["T1"].val, init.in_desc[<<"B1", 1>>].layout)]
        /\ out_desc["B1"] =
               [shape |-> pshape_to_vdims(init.out_shape["T2"]),
                layout |-> compose(init.out_desc["B1"].layout, order["T2"].val)]

\* C10 witness: the Brgemm-rooted match came first and the Transpose-rooted
\* one second, on ports that all recorded a layout.
C10_Witness ==
    /\ PassDone
    /\ AllThreeEligible
    /\ calls[1] = 2
    /\ last.root = "T2"
    /\ init.out_desc["B1"].layout # <<>>
    /\ init.in_desc[<<"B1", 0>>].layout # <<>>
    /\ order["T0"].val # Identity(rank)
    /\ order["T2"].val # Identity(rank)

\* The other order of C10: the Transpose-rooted match alone fused the
\* output and both inputs.
C10_OneInvocation ==
    /\ PassDone
    /\ AllThreeEligible
    /\ calls[1] = 1
    /\ last.root = "T2"

====
